---------------------------- MODULE Spec2Model ----------------------------
(***************************************************************************)
(* Networking-Tests: the epoll echo server (src/server.cpp) and the        *)
(* scalability tester (src/unnamed/part_002).                              *)
(*                                                                         *)
(* The module holds several specifications over one set of variables, one  *)
(* per part of the program; each leaves the other parts' variables         *)
(* unchanged:                                                              *)
(*   Spec        the server's life and its stream (TCP) path               *)
(*   SpecQuic    the pseudo-QUIC datagram path of the server               *)
(*   SpecUdp     the plain-datagram path of the server                     *)
(*   SpecPct     the tester's percentile computation                       *)
(*   SpecTester  the tester's threads: Driver, monitor and workers         *)
(*   FairTester  SpecTester with the scheduling the threads can rely on    *)
(***************************************************************************)
EXTENDS Integers, Sequences, FiniteSets, TLC

VARIABLES
    pc,                    \* position of the server's single reactor thread
    littleEndian,          \* byte order of the host the server was built for
    now,                   \* std::chrono::steady_clock::now()
    quic_seen,             \* history: the connection ids that the handled
                           \* datagrams of 4 bytes or more carried
    quic_queue,            \* datagrams queued on quic_fd, oldest first
    quic_connections_map,  \* EpollServer::quic_connections_map
    quic_connections,      \* EpollServer::quic_connections
    quic_sendto,           \* the last sendto() call made on quic_fd
    udp_queue,             \* datagrams queued on udp_fd, oldest first
    udp_packets,           \* EpollServer::udp_packets
    udp_sendto,            \* the last sendto() call made on udp_fd
    latencies,             \* ScalabilityTester::latencies
    percentiles,           \* ScalabilityResult::percentiles of the last result
    drv_pc,                \* position of the tester's main thread (the Driver)
    trial,                 \* which call of test_with_client_count, from 1
    spawned,               \* worker threads started in this trial
    stop_test,             \* ScalabilityTester::stop_test
    connections,           \* ScalabilityTester::connections
    active_connections,    \* ScalabilityTester::active_connections
    peak_connections,      \* ScalabilityTester::peak_connections
    total_bytes,           \* ScalabilityTester::total_bytes
    mon_pc,                \* position of the monitor thread
    max_sample,            \* history: the largest value the monitor has
                           \* loaded in this trial
    wpc,                   \* position of each worker thread
    requests,              \* history: sends made in this trial
    result,                \* test_with_client_count's ScalabilityResult, as
                           \* far as the sample count decides it
    log_file,              \* the lines written to ScalabilityTester::log_file
    tcp_done,              \* log_result's static tcp_done
    tcp_tests_completed,   \* log_result's static tcp_tests_completed
    runs,                  \* calls of run_scalability_tests so far
    passed,                \* history: the protocol and the client count of
                           \* every call of test_with_client_count
    late_sends,            \* history: sends each worker has made with
                           \* stop_test set, kept until its thread returns
                           \* from the loop or from a failed receive
    epoll_fd,              \* EpollServer::epoll_fd
    tcp_fd,                \* EpollServer::tcp_fd
    udp_fd,                \* EpollServer::udp_fd
    quic_fd,               \* EpollServer::quic_fd
    open_fds,              \* the descriptors open in the server process
    registered,            \* the descriptors in the epoll interest list
    bound,                 \* the sockets bind() has given their port
    listening,             \* the sockets listen() has made passive
    closes,                \* history: close() calls on each descriptor
                           \* number since it was last handed out
    cleanups,              \* history: calls of cleanup()
    tcp_connections,       \* EpollServer::tcp_connections
    cstate,                \* each client's connection: idle, queued (in the
                           \* listen backlog), open (accepted) or closed
    cfd,                   \* the descriptor accept() returned for it
    peer,                  \* what the client has done: up, fin or rst
    csent,                 \* bytes the client has sent: 1..csent[c]
    cread,                 \* bytes of them the server has read
    echoed,                \* the bytes the server has written back
    ready,                 \* an edge-triggered event is pending
    wouldblock,            \* history: a write reported EAGAIN
    chunk_starts,          \* history: the places in the client's bytes where
                           \* a read of the server began
    o_nonblock,            \* O_NONBLOCK is set on the accepted descriptor
    ev_events,             \* the events the accepted descriptor is
                           \* registered for
    h_client,              \* handle_tcp_client's client_fd, as the client
    tcp_buffer,            \* handle_tcp_client's buffer[0..bytes_read-1]
    total_written          \* handle_tcp_client's total_written

quicVars == <<littleEndian, now, quic_seen, quic_queue, quic_connections_map,
              quic_connections, quic_sendto>>

udpVars == <<udp_queue, udp_packets, udp_sendto>>

pctVars == <<latencies, percentiles>>

counterVars == <<connections, active_connections, peak_connections,
                 total_bytes>>

driverVars == <<drv_pc, trial, spawned, stop_test>>

monitorVars == <<mon_pc, max_sample>>

workerVars == <<wpc, requests, late_sends>>

logVars == <<result, log_file, tcp_done, tcp_tests_completed, runs, passed>>

testerVars == <<counterVars, driverVars, monitorVars, workerVars, logVars>>

fdVars == <<epoll_fd, tcp_fd, udp_fd, quic_fd, open_fds, registered, bound,
            listening, closes,
            cleanups>>

sockVars == <<o_nonblock, ev_events>>

connVars == <<tcp_connections, cstate, cfd, peer, csent, cread, echoed, ready,
              wouldblock, chunk_starts, sockVars>>

handlerVars == <<h_client, tcp_buffer, total_written>>

tcpVars == <<fdVars, connVars, handlerVars>>

serverVars == <<pc, quicVars, udpVars, tcpVars>>

vars == <<pc, quicVars, udpVars, pctVars, testerVars, tcpVars>>

-----------------------------------------------------------------------------
(* Program constants *)

BUFFER_SIZE == 1024

\* sizeof(uint32_t), the length of the connection id
IdLen == 4

\* the length given to the memcpy of "QUIC Echo: "
MarkerLen == 11

\* "QUIC Echo: " in ASCII
QuicMarker == <<81, 85, 73, 67, 32, 69, 99, 104, 111, 58, 32>>

-----------------------------------------------------------------------------
(* Bounds of the model *)

\* short datagrams have 0..MaxSmallLen bytes
MaxSmallLen == 5

\* long datagrams have up to BUFFER_SIZE - 1 + MaxOver bytes
MaxOver == 1

\* datagrams a socket's receive queue holds at a time
MaxQueue == 1

\* no datagram arrives once udp_packets has reached MaxPackets
MaxPackets == 3

\* the percentile computation is given 0..MaxSamples latencies
MaxSamples == 5

\* a latency is one of 0..MaxLatency
MaxLatency == 2

\* worker threads a trial starts, whatever its client count
MaxWorkers == 2

\* requests the workers of one trial send between them
MaxRequests == 2

\* client counts, from the start of the sequence, tried per protocol
MaxCounts == 1

\* calls of run_scalability_tests on one ScalabilityTester
MaxRuns == 2

\* ticks of the steady clock while the server handles datagrams
MaxTime == 2

\* stream clients that connect to the server
MaxClients == 2

\* bytes a stream client sends
MaxSend == 2

\* calls of cleanup() on one server
MaxCleanups == 2

\* steps (connect, send a byte, shut down or reset) the stream clients take
\* all together
MaxClientSteps == 5

-----------------------------------------------------------------------------
(* Helpers *)

Min(a, b) == IF a < b THEN a ELSE b

Max(a, b) == IF a > b THEN a ELSE b

\* A size_t is held as the signed number with the same two's complement
\* bits: a negative number stands for 2^64 plus it.  Sums and differences of
\* the small values met here then need no reduction, and the unsigned order
\* puts every negative number above every non-negative one.
SizeLess(a, b) == IF (a < 0) = (b < 0) THEN a < b ELSE b < 0

\* std::min<size_t>
SizeMin(a, b) == IF SizeLess(b, a) THEN b ELSE a

\* the uint32_t whose bytes in memory, lowest address first, are b
LoadU32(b, le) ==
    IF le THEN b[1] + 256 * b[2] + 65536 * b[3] + 16777216 * b[4]
          ELSE b[4] + 256 * b[3] + 65536 * b[2] + 16777216 * b[1]

\* the bytes in memory, lowest address first, of the uint32_t x
StoreU32(x, le) ==
    LET b0 == x % 256
        b1 == (x \div 256) % 256
        b2 == (x \div 65536) % 256
        b3 == (x \div 16777216) % 256
    IN  IF le THEN <<b0, b1, b2, b3>> ELSE <<b3, b2, b1, b0>>

\* ntohl: network (big-endian) to host order
ntohl(x, le) == IF le THEN LoadU32(StoreU32(x, TRUE), FALSE) ELSE x

\* what recvfrom(fd, buf, cap) stores for a queued datagram: at most cap
\* bytes, the rest of the datagram is discarded
Recvfrom(data, cap) == SubSeq(data, 1, Min(Len(data), cap))

-----------------------------------------------------------------------------
(* Inputs *)

Addrs == {"peerA", "peerB"}

PayloadByte(i) == 65 + (i % 26)

MkDatagram(id, len) ==
    [i \in 1..len |-> IF i <= IdLen THEN id[i] ELSE PayloadByte(i)]

\* id 0x00000007 followed by "hi"
HiDatagram == <<0, 0, 0, 7, 104, 105>>

\* datagram lengths: the short ones, the two around the longest payload
\* that fits the response, and the longest ones recvfrom can return
QuicLens ==
    (0..MaxSmallLen)
        \cup {BUFFER_SIZE - MarkerLen, BUFFER_SIZE - MarkerLen + 1}
        \cup ((BUFFER_SIZE - 1)..(BUFFER_SIZE - 1 + MaxOver))

QuicInputs ==
    {[data |-> MkDatagram(<<1, 2, 3, 4>>, len), addr |-> "peerA"] :
        len \in QuicLens}
        \cup {[data |-> HiDatagram, addr |-> a] : a \in Addrs}

\* what the bytes beyond the end of a local array may hold
StrayBytes == {0, 66}

-----------------------------------------------------------------------------
(* The pseudo-QUIC path: EpollServer::handle_quic_connection *)

NoSend == [len |-> -1]

QuicConnection(id, addr) ==
    [connection_id |-> id, client_addr |-> addr,
     last_activity |-> now, established |-> FALSE]

\* the connection id taken from the first 4 bytes, 0 for a shorter datagram
ConnectionId(buffer) ==
    IF Len(buffer) >= IdLen
    THEN ntohl(LoadU32(SubSeq(buffer, 1, IdLen), littleEndian), littleEndian)
    ELSE 0

\* the number of payload bytes the third memcpy copies
CopyLen(bytes_received) ==
    SizeMin(bytes_received - IdLen, BUFFER_SIZE - IdLen - MarkerLen)

\* the length passed to sendto
ResponseSize(bytes_received) == IdLen + MarkerLen + (bytes_received - IdLen)

\* char response[BUFFER_SIZE] after the three memcpy calls; bytes the code
\* has not written, and bytes copied from the part of buffer that recvfrom
\* did not fill, hold stray
Response(buffer, stray) ==
    LET n    == Len(buffer)
        id   == StoreU32(ConnectionId(buffer), littleEndian)
        copy == CopyLen(n)
    IN  [i \in 1..BUFFER_SIZE |->
            IF i <= IdLen THEN id[i]
            ELSE IF i <= IdLen + MarkerLen THEN QuicMarker[i - IdLen]
            ELSE IF i <= IdLen + MarkerLen + copy /\ i - MarkerLen <= n
                 THEN buffer[i - MarkerLen]
            ELSE stray]

\* the bytes sendto(quic_fd, response, response_size) reads: those of
\* response and, past its end, whatever the stack holds there
Transmitted(buffer, stray) ==
    LET r == Response(buffer, stray)
    IN  [i \in 1..ResponseSize(Len(buffer)) |->
            IF i <= BUFFER_SIZE THEN r[i] ELSE stray]

\* the connection id a datagram of 4 bytes or more carries: its first 4
\* bytes read as a big-endian number
WireId(buffer) == LoadU32(SubSeq(buffer, 1, IdLen), FALSE)

\* a record that is left as it is when its connection sends again
RefreshNot(rec) == rec

\* server.cpp:393: it->second.last_activity = steady_clock::now()
Refresh(rec) == [rec EXCEPT !.last_activity = now]

\* time passes on the steady clock while the server waits in epoll_wait
\* (server.cpp:217)
Tick ==
    /\ pc = "wait"
    /\ quic_queue = <<>>
    /\ now < MaxTime
    /\ now' = now + 1
    /\ UNCHANGED <<pc, littleEndian, quic_seen, quic_queue,
                   quic_connections_map, quic_connections, quic_sendto>>
    /\ UNCHANGED <<udpVars, pctVars, testerVars, tcpVars>>

\* a datagram arrives on the pseudo-QUIC port
QuicArrive ==
    /\ Len(quic_queue) < MaxQueue
    /\ \E d \in QuicInputs : quic_queue' = Append(quic_queue, d)
    /\ UNCHANGED <<pc, littleEndian, now, quic_seen, quic_connections_map,
                   quic_connections, quic_sendto>>
    /\ UNCHANGED <<udpVars, pctVars, testerVars, tcpVars>>

\* server.cpp:229: epoll_wait reports quic_fd readable (level-triggered)
DispatchQuic ==
    /\ pc = "wait"
    /\ quic_queue # <<>>
    /\ pc' = "quic"
    /\ UNCHANGED <<quicVars, udpVars, pctVars, testerVars, tcpVars>>

\* a response that goes to the address kept in the record
ReplyToRecord(record_addr, sender) == record_addr

\* server.cpp:405-406: sendto(..., (struct sockaddr*)&client_addr,
\* client_len), the address recvfrom filled in for this datagram
ReplyTo(record_addr, sender) == sender

\* one pass of the while (true) loop that receives a datagram
handle_quic_connection ==
    /\ pc = "quic"
    /\ quic_queue # <<>>
    /\ LET buffer      == Recvfrom(Head(quic_queue).data, BUFFER_SIZE - 1)
           client_addr == Head(quic_queue).addr
           id          == ConnectionId(buffer)
       IN  /\ quic_queue' = Tail(quic_queue)
           /\ quic_seen' = IF Len(buffer) >= IdLen
                              THEN quic_seen \cup {WireId(buffer)}
                              ELSE quic_seen
           /\ IF Len(buffer) > 0
              THEN /\ IF id \notin DOMAIN quic_connections_map
                      THEN /\ quic_connections_map' =
                                [i \in DOMAIN quic_connections_map \cup {id} |->
                                    IF i = id THEN QuicConnection(id, client_addr)
                                    ELSE quic_connections_map[i]]
                           /\ quic_connections' = quic_connections + 1
                      ELSE /\ quic_connections_map' =
                                [quic_connections_map EXCEPT
                                    ![id] = Refresh(@)]
                           /\ UNCHANGED quic_connections
                   /\ \E stray \in StrayBytes :
                          quic_sendto' =
                              [len  |-> ResponseSize(Len(buffer)),
                               buf  |-> Transmitted(buffer, stray),
                               to   |-> ReplyTo(
                                   quic_connections_map'[id].client_addr,
                                   client_addr),
                               req  |-> buffer,
                               from |-> client_addr]
              ELSE UNCHANGED <<quic_connections_map, quic_connections,
                               quic_sendto>>
    /\ UNCHANGED <<pc, littleEndian, now>>
    /\ UNCHANGED <<udpVars, pctVars, testerVars, tcpVars>>

\* recvfrom fails: with EAGAIN when nothing is queued, or with another error
handle_quic_connection_break ==
    /\ pc = "quic"
    /\ pc' = "wait"
    /\ UNCHANGED <<quicVars, udpVars, pctVars, testerVars, tcpVars>>

\* the pseudo-QUIC state of a server that has handled nothing yet
QuicIdle ==
    /\ quic_seen = {}
    /\ now = 0
    /\ quic_queue = <<>>
    /\ quic_connections_map = <<>>
    /\ quic_connections = 0
    /\ quic_sendto = NoSend

\* the plain-datagram state of a server that has handled nothing yet
UdpIdle ==
    /\ udp_queue = <<>>
    /\ udp_packets = 0
    /\ udp_sendto = NoSend

Clients == 1..MaxClients

\* descriptors 0, 1 and 2 are the standard streams; socket(), accept() and
\* epoll_create1() hand out the lowest number that is free
FirstFd == 3

\* the descriptor numbers the server can be handed
FdNums == FirstFd..(FirstFd + 3 + MaxClients)

LowestFree(open) ==
    CHOOSE n \in FdNums :
        n \notin open /\ \A m \in FirstFd..(n - 1) : m \in open

\* no stream client has connected and no handler runs
TcpIdle ==
    /\ tcp_connections = 0
    /\ cstate = [c \in Clients |-> "idle"]
    /\ cfd = [c \in Clients |-> -1]
    /\ peer = [c \in Clients |-> "up"]
    /\ csent = [c \in Clients |-> 0]
    /\ cread = [c \in Clients |-> 0]
    /\ echoed = [c \in Clients |-> <<>>]
    /\ ready = [c \in Clients |-> FALSE]
    /\ wouldblock = [c \in Clients |-> FALSE]
    /\ chunk_starts = [c \in Clients |-> {}]
    /\ o_nonblock = [c \in Clients |-> FALSE]
    /\ ev_events = [c \in Clients |-> {}]
    /\ h_client = 0
    /\ tcp_buffer = <<>>
    /\ total_written = 0

\* server.cpp:46: the constructor; main has not called initialize() yet
ServerNew ==
    /\ pc = "new"
    /\ epoll_fd = -1
    /\ tcp_fd = -1
    /\ udp_fd = -1
    /\ quic_fd = -1
    /\ open_fds = {}
    /\ registered = {}
    /\ bound = {}
    /\ listening = {}
    /\ closes = [n \in FdNums |-> 0]
    /\ cleanups = 0
    /\ TcpIdle

\* initialize() has returned true and run() waits in epoll_wait
ServerListening ==
    /\ pc = "wait"
    /\ epoll_fd = FirstFd
    /\ tcp_fd = FirstFd + 1
    /\ udp_fd = FirstFd + 2
    /\ quic_fd = FirstFd + 3
    /\ open_fds = FirstFd..(FirstFd + 3)
    /\ registered = (FirstFd + 1)..(FirstFd + 3)
    /\ bound = (FirstFd + 1)..(FirstFd + 3)
    /\ listening = {FirstFd + 1}
    /\ closes = [n \in FdNums |-> 0]
    /\ cleanups = 0
    /\ TcpIdle

\* no result has been computed yet
NoPercentiles == <<>>

\* no ScalabilityResult is in scope: no trial has a client count of 0
NoResult ==
    [client_count |-> 0, total_requests |-> 0, successful_requests |-> 0,
     success_rate |-> 0]

Workers == 1..MaxWorkers

\* a tester that has been constructed and has not run a trial yet
ThreadsIdle ==
    /\ drv_pc = "header"
    /\ trial = 1
    /\ spawned = 0
    /\ stop_test = FALSE
    /\ connections = 0
    /\ active_connections = 0
    /\ peak_connections = 0
    /\ total_bytes = 0
    /\ mon_pc = "idle"
    /\ max_sample = 0
    /\ wpc = [w \in Workers |-> "idle"]
    /\ requests = 0
    /\ late_sends = [w \in Workers |-> 0]
    /\ result = NoResult
    /\ log_file = <<>>
    /\ tcp_done = FALSE
    /\ tcp_tests_completed = 0
    /\ runs = 1
    /\ passed = <<>>

\* the tester's state when the server is looked at alone
TesterIdle ==
    /\ latencies = <<>>
    /\ percentiles = NoPercentiles
    /\ ThreadsIdle

\* the server has come up and waits in epoll_wait
InitQuic ==
    /\ ServerListening
    /\ littleEndian \in BOOLEAN
    /\ QuicIdle
    /\ UdpIdle
    /\ TesterIdle

NextQuic ==
    \/ QuicArrive
    \/ DispatchQuic
    \/ handle_quic_connection
    \/ handle_quic_connection_break

SpecQuic == InitQuic /\ [][NextQuic]_vars

\* the datagrams that matter to the Connection Table: one id from two
\* peers, another id, a datagram too short to carry an id and an empty one
TableInputs ==
    {[data |-> HiDatagram, addr |-> a] : a \in Addrs}
        \cup {[data |-> MkDatagram(<<1, 2, 3, 4>>, len), addr |-> "peerA"] :
                 len \in {0, 1, IdLen}}

\* one of them arrives on the pseudo-QUIC port
TableArrive ==
    /\ Len(quic_queue) < MaxQueue
    /\ \E d \in TableInputs : quic_queue' = Append(quic_queue, d)
    /\ UNCHANGED <<pc, littleEndian, now, quic_seen, quic_connections_map,
                   quic_connections, quic_sendto>>
    /\ UNCHANGED <<udpVars, pctVars, testerVars, tcpVars>>

\* the pseudo-QUIC path with the clock running
NextTable ==
    \/ Tick
    \/ TableArrive
    \/ DispatchQuic
    \/ handle_quic_connection
    \/ handle_quic_connection_break

SpecTable == InitQuic /\ [][NextTable]_vars

-----------------------------------------------------------------------------
(* Claims about the pseudo-QUIC path, checked under SpecQuic *)

\* the last sendto answered a datagram of at least 4 bytes
QuicAnswered == quic_sendto # NoSend /\ Len(quic_sendto.req) >= IdLen

\* the request bytes after the connection id
RequestPayload == SubSeq(quic_sendto.req, IdLen + 1, Len(quic_sendto.req))

\* the response bytes after the connection id and the marker
ResponsePayload ==
    SubSeq(quic_sendto.buf, IdLen + MarkerLen + 1, Len(quic_sendto.buf))

IsPrefix(s, t) == Len(s) <= Len(t) /\ s = SubSeq(t, 1, Len(s))

\* C1: for every datagram of at least 4 bytes, the first 4 bytes of the
\* response are the first 4 bytes of the request.
C1_IdEchoed ==
    QuicAnswered =>
        SubSeq(quic_sendto.buf, 1, IdLen) = SubSeq(quic_sendto.req, 1, IdLen)

\* C2: for every datagram of at least 4 bytes, response bytes 4..14 are
\* "QUIC Echo: " and the bytes from offset 15 on are the request bytes from
\* offset 4 on, cut short only when there are more than 1024 - 4 - 11 of them.
C2_MarkerAndPayload ==
    QuicAnswered =>
        /\ SubSeq(quic_sendto.buf, IdLen + 1, IdLen + MarkerLen) = QuicMarker
        /\ IsPrefix(ResponsePayload, RequestPayload)
        /\ Len(RequestPayload) <= BUFFER_SIZE - IdLen - MarkerLen
               => ResponsePayload = RequestPayload

\* C3: for every datagram received, of any length, the length passed to
\* sendto is at most the 1024 bytes of the response buffer.
C3_ResponseFitsBuffer ==
    quic_sendto # NoSend => quic_sendto.len <= BUFFER_SIZE

-----------------------------------------------------------------------------
(* The plain-datagram path: EpollServer::handle_udp_packet *)

UdpLens ==
    (0..MaxSmallLen) \cup ((BUFFER_SIZE - 1)..(BUFFER_SIZE + MaxOver))

UdpInputs ==
    {[data |-> MkDatagram(<<1, 2, 3, 4>>, len), addr |-> "peerA"] :
        len \in UdpLens}
        \cup {[data |-> HiDatagram, addr |-> "peerB"]}

\* a receive that keeps one byte of the buffer free, as the pseudo-QUIC
\* path does
UdpRecvfromShort(data) == Recvfrom(data, BUFFER_SIZE - 1)

\* server.cpp:332: recvfrom(udp_fd, buffer, sizeof(buffer), ...)
UdpRecvfrom(data) == Recvfrom(data, BUFFER_SIZE)

\* server.cpp:336: sendto(udp_fd, buffer, bytes_read, 0, &client_addr, ...);
\* sent tells whether sendto returned other than -1
UdpSendto(buffer, client_addr, sent) ==
    [len |-> Len(buffer), buf |-> buffer, to |-> client_addr, sent |-> sent]

\* a datagram arrives on the plain-datagram port
UdpArrive ==
    /\ Len(udp_queue) < MaxQueue
    /\ udp_packets < MaxPackets
    /\ \E d \in UdpInputs : udp_queue' = Append(udp_queue, d)
    /\ UNCHANGED <<pc, quicVars, pctVars, testerVars, tcpVars, udp_packets,
                   udp_sendto>>

\* server.cpp:227: epoll_wait reports udp_fd readable (level-triggered)
DispatchUdp ==
    /\ pc = "wait"
    /\ udp_queue # <<>>
    /\ pc' = "udp"
    /\ UNCHANGED <<quicVars, udpVars, pctVars, testerVars, tcpVars>>

\* a server that echoes whatever recvfrom returns, an empty datagram too
UdpEchoesEmpty(bytes_read) == bytes_read >= 0

\* server.cpp:334: if (bytes_read > 0); with bytes_read 0 no branch is taken
\* and the loop goes on
UdpEchoes(bytes_read) == bytes_read > 0

\* one pass of the while (true) loop that receives a datagram
handle_udp_packet ==
    /\ pc = "udp"
    /\ udp_queue # <<>>
    /\ LET buffer      == UdpRecvfrom(Head(udp_queue).data)
           client_addr == Head(udp_queue).addr
       IN  /\ udp_queue' = Tail(udp_queue)
           /\ IF UdpEchoes(Len(buffer))
              THEN \E sent \in BOOLEAN :
                      /\ udp_sendto' = UdpSendto(buffer, client_addr, sent)
                      /\ udp_packets' =
                             IF sent THEN udp_packets + 1 ELSE udp_packets
              ELSE UNCHANGED <<udp_packets, udp_sendto>>
    /\ UNCHANGED <<pc, quicVars, pctVars, testerVars, tcpVars>>

\* recvfrom fails: with EAGAIN when nothing is queued, or with another error
handle_udp_packet_break ==
    /\ pc = "udp"
    /\ pc' = "wait"
    /\ UNCHANGED <<quicVars, udpVars, pctVars, testerVars, tcpVars>>

\* the server has come up and waits in epoll_wait
InitUdp ==
    /\ ServerListening
    /\ littleEndian \in BOOLEAN
    /\ QuicIdle
    /\ UdpIdle
    /\ TesterIdle

NextUdp ==
    \/ UdpArrive
    \/ DispatchUdp
    \/ handle_udp_packet
    \/ handle_udp_packet_break

SpecUdp == InitUdp /\ [][NextUdp]_vars

-----------------------------------------------------------------------------
(* Claims about the plain-datagram path, checked under SpecUdp *)

\* the server takes the oldest queued datagram, which has 1..1024 bytes
UdpHandles ==
    /\ pc = "udp"
    /\ udp_queue # <<>>
    /\ udp_queue' = Tail(udp_queue)
    /\ Len(Head(udp_queue).data) \in 1..BUFFER_SIZE

\* C5: every datagram of 1..1024 bytes is passed to sendto with the same
\* bytes, the same length and the address it came from; the call is decided
\* by that datagram alone, and handling it changes nothing else than the
\* receive queue and the packet counter.
C5_UdpEchoVerbatim ==
    [][UdpHandles =>
          /\ udp_sendto'.buf = Head(udp_queue).data
          /\ udp_sendto'.len = Len(Head(udp_queue).data)
          /\ udp_sendto'.to = Head(udp_queue).addr
          /\ UNCHANGED <<pc, quicVars, pctVars, testerVars, tcpVars>>]_vars

\* a full 1024-byte datagram has been echoed, after an earlier echo
C5_Witness ==
    /\ udp_sendto # NoSend
    /\ udp_sendto.len = BUFFER_SIZE
    /\ udp_sendto.sent
    /\ udp_packets >= 2

-----------------------------------------------------------------------------
(* The percentile computation: ScalabilityTester::calculate_all_percentiles *)

\* x put into the ascending sequence s
RECURSIVE Insert(_, _)
Insert(x, s) ==
    IF s = <<>> THEN <<x>>
    ELSE IF x <= Head(s) THEN <<x>> \o s
    ELSE <<Head(s)>> \o Insert(x, Tail(s))

\* std::sort(begin, end): the values of s in ascending order
RECURSIVE Sort(_)
Sort(s) == IF s = <<>> THEN <<>> ELSE Insert(Head(s), Sort(Tail(s)))

\* the copy of data the percentiles are read from, left as recorded
SortedDataUnsorted(data) == data

\* part_002:350-351: sorted_data = data; std::sort(...)
SortedData(data) == Sort(data)

\* the index of percentile p among n values without the step back by one
PercentileIndexNoDecrement(n, p) ==
    LET index == (n * p) \div 100
    IN  IF index >= n THEN n - 1 ELSE index

\* part_002:357-359: the 0-based index of percentile p among n values
PercentileIndex(n, p) ==
    LET index == (n * p) \div 100
        dec   == IF index > 0 THEN index - 1 ELSE index
    IN  IF dec >= n THEN n - 1 ELSE dec

calculate_all_percentiles(data) ==
    IF data = <<>> THEN [p \in 1..100 |-> 0]
    ELSE LET sorted_data == SortedData(data)
         IN  [p \in 1..100 |->
                 sorted_data[PercentileIndex(Len(sorted_data), p) + 1]]

\* part_002:205: result.percentiles = calculate_all_percentiles(latencies)
ComputePercentiles ==
    /\ percentiles = NoPercentiles
    /\ percentiles' = calculate_all_percentiles(latencies)
    /\ UNCHANGED <<pc, quicVars, udpVars, latencies, testerVars,
                   tcpVars>>

Latencies == 0..MaxLatency

\* every sample set of up to MaxSamples latencies, in every order
InitPct ==
    /\ ServerListening
    /\ littleEndian = TRUE
    /\ QuicIdle
    /\ UdpIdle
    /\ \E n \in 0..MaxSamples : latencies \in [1..n -> Latencies]
    /\ percentiles = NoPercentiles
    /\ ThreadsIdle

NextPct == ComputePercentiles

SpecPct == InitPct /\ [][NextPct]_vars

-----------------------------------------------------------------------------
(* Claims about the percentile computation, checked under SpecPct *)

Computed == percentiles # NoPercentiles

\* C6: the result has exactly 100 values; for a non-empty sample set they
\* are non-decreasing and the last one is the largest sample; for an empty
\* sample set they are all 0.
C6_Percentiles ==
    Computed =>
        /\ Len(percentiles) = 100
        /\ latencies # <<>> =>
               /\ \A p \in 1..99 : percentiles[p] <= percentiles[p + 1]
               /\ \A i \in 1..Len(latencies) : latencies[i] <= percentiles[100]
               /\ \E i \in 1..Len(latencies) : latencies[i] = percentiles[100]
        /\ latencies = <<>> => \A p \in 1..100 : percentiles[p] = 0

\* the percentiles of an unsorted sample set with distinct values
C6_Witness ==
    /\ Computed
    /\ Len(latencies) >= 3
    /\ latencies[1] > latencies[2]
    /\ percentiles[1] < percentiles[100]

-----------------------------------------------------------------------------
(* The tester's threads: ScalabilityTester in src/unnamed/part_002 *)

\* part_002:117 and 134: the client counts of run_tcp_scalability and of
\* run_udp_scalability
ClientCounts == <<10, 20, 50, 100, 200, 500, 1000, 2000, 5000>>

\* the client counts the model tries per protocol
NumCounts == Min(MaxCounts, Len(ClientCounts))

NumTrials == 2 * NumCounts

\* run_tcp_scalability passes "TCP", run_udp_scalability after it "UDP"
Protocol(t) == IF t <= NumCounts THEN "TCP" ELSE "UDP"

ClientCount(t) == ClientCounts[IF t <= NumCounts THEN t ELSE t - NumCounts]

\* the threads the model starts for a trial
NumThreads(t) == Min(ClientCount(t), MaxWorkers)

\* part_002:272 and 334: total_bytes += sent + received, with the whole
\* payload sent and echoed
RequestBytes == BUFFER_SIZE + BUFFER_SIZE

\* the latencies a worker may measure
TesterLatencies == {1}

(* The Driver: run_scalability_tests and test_with_client_count *)

\* part_002:109: the header's line that names the columns
HeaderLine == <<"Protocol", "ClientCount">>

\* part_002:404: the first two fields of a result's line
ResultLine(protocol, client_count) == <<protocol, client_count>>

\* part_002:94 and 104-111: write_log_header(), with the log file that the
\* constructor opened (part_002:76)
write_log_header ==
    /\ drv_pc = "header"
    /\ log_file' = Append(log_file, HeaderLine)
    /\ drv_pc' = "reset"
    /\ UNCHANGED <<serverVars, pctVars, counterVars, trial, spawned,
                   stop_test, monitorVars, workerVars, result, tcp_done,
                   tcp_tests_completed, runs, passed>>

\* part_002:148-154: reset_counters(), then the monitor thread is started;
\* no other thread of the tester runs at this point
reset_counters ==
    /\ drv_pc = "reset"
    /\ connections' = 0
    /\ active_connections' = 0
    /\ peak_connections' = 0
    /\ total_bytes' = 0
    /\ stop_test' = FALSE
    /\ latencies' = <<>>
    /\ spawned' = 0
    /\ mon_pc' = "check"
    /\ max_sample' = 0
    /\ wpc' = [w \in Workers |-> "idle"]
    /\ requests' = 0
    /\ late_sends' = [w \in Workers |-> 0]
    /\ drv_pc' = "spawn"
    /\ passed' = Append(passed, <<Protocol(trial), ClientCount(trial)>>)
    /\ UNCHANGED <<serverVars, percentiles, trial, result, log_file,
                   tcp_done, tcp_tests_completed, runs>>

\* part_002:160-172: one pass of the loop that starts the worker threads
SpawnWorker ==
    /\ drv_pc = "spawn"
    /\ spawned < NumThreads(trial)
    /\ spawned' = spawned + 1
    /\ wpc' = [wpc EXCEPT ![spawned + 1] = "start"]
    /\ UNCHANGED <<serverVars, logVars, pctVars, counterVars, drv_pc, trial,
                   stop_test, monitorVars, requests, late_sends>>

\* part_002:175-178: every worker is started; after the trial's duration
\* the Driver sets stop_test
StopTest ==
    /\ drv_pc = "spawn"
    /\ spawned = NumThreads(trial)
    /\ stop_test' = TRUE
    /\ drv_pc' = "join"
    /\ UNCHANGED <<serverVars, logVars, pctVars, counterVars, trial, spawned,
                   monitorVars, workerVars>>

\* joins that return at once
JoinsReturnEarly == TRUE

\* part_002:181-184: thread.join() for every worker and monitor_thread.join()
\* have returned: those threads have ended
JoinsReturn ==
    /\ \A w \in 1..spawned : wpc[w] = "done"
    /\ mon_pc = "done"

\* part_002:181-184: the joins return once every worker thread and the
\* monitor thread have ended
JoinThreads ==
    /\ drv_pc = "join"
    /\ JoinsReturn
    /\ drv_pc' = "compute"
    /\ UNCHANGED <<serverVars, logVars, pctVars, counterVars, trial, spawned,
                   stop_test, monitorVars, workerVars>>

\* a success rate of 100 whatever was recorded
SuccessRateAlways(total_requests) == 100

\* part_002:195: result.total_requests > 0 ? 100.0 : 0.0
SuccessRate(total_requests) == IF total_requests > 0 THEN 100 ELSE 0

\* part_002:189-207: the result is computed
ComputeResult ==
    /\ drv_pc = "compute"
    /\ result' = [client_count |-> ClientCount(trial),
                  total_requests |-> Len(latencies),
                  successful_requests |-> Len(latencies),
                  success_rate |-> SuccessRate(Len(latencies))]
    /\ percentiles' = calculate_all_percentiles(latencies)
    /\ drv_pc' = "log"
    /\ UNCHANGED <<serverVars, latencies, counterVars, trial, spawned,
                   stop_test, monitorVars, workerVars, log_file, tcp_done,
                   tcp_tests_completed, runs, passed>>

\* part_002:389: the count of TCP tests after which log_result takes the
\* lines for UDP ones: 9, the length of the list of client counts, as the
\* client counts the model tries
TcpTests == NumCounts

\* part_002:123-126 and 140-143: log_result(result), the pause, and the next
\* client count, where the loop's result goes out of scope; after the last
\* UDP trial run_scalability_tests returns. log_result (part_002:378-415)
\* takes the protocol from its static variables
log_result ==
    /\ drv_pc = "log"
    /\ LET protocol == IF ~tcp_done THEN "TCP" ELSE "UDP"
       IN  log_file' =
               Append(log_file, ResultLine(protocol, result.client_count))
    /\ IF ~tcp_done
       THEN /\ tcp_tests_completed' = tcp_tests_completed + 1
            /\ tcp_done' = (tcp_tests_completed + 1 >= TcpTests)
       ELSE UNCHANGED <<tcp_done, tcp_tests_completed>>
    /\ IF trial < NumTrials
       THEN trial' = trial + 1 /\ drv_pc' = "reset"
       ELSE trial' = trial /\ drv_pc' = "done"
    /\ percentiles' = NoPercentiles
    /\ result' = NoResult
    /\ UNCHANGED <<serverVars, latencies, counterVars, spawned, stop_test,
                   monitorVars, workerVars, runs, passed>>

\* part_002:90: run_scalability_tests is called again on the same
\* ScalabilityTester
run_scalability_tests ==
    /\ drv_pc = "done"
    /\ runs < MaxRuns
    /\ runs' = runs + 1
    /\ trial' = 1
    /\ drv_pc' = "header"
    /\ UNCHANGED <<serverVars, pctVars, counterVars, spawned, stop_test,
                   monitorVars, workerVars, result, log_file, tcp_done,
                   tcp_tests_completed, passed>>

(* The monitor thread: connection_monitor *)

\* the monitor's store of the sample, whatever the peak
MonitorPeakLast(cur, peak) == cur

\* part_002:222-224: if (current > peak_connections) peak_connections = current
MonitorPeak(cur, peak) == IF cur > peak THEN cur ELSE peak

\* part_002:220: while (!stop_test)
MonitorCheck ==
    /\ mon_pc = "check"
    /\ mon_pc' = IF stop_test THEN "done" ELSE "sample"
    /\ UNCHANGED <<serverVars, logVars, pctVars, counterVars, driverVars, max_sample,
                   workerVars>>

\* part_002:221-225: current = active_connections.load(), the peak is
\* raised to it, and the monitor sleeps 100 ms; only the monitor writes the
\* peak while it runs, so the load and the update are one step
MonitorSample ==
    /\ mon_pc = "sample"
    /\ LET current == active_connections
       IN  /\ peak_connections' = MonitorPeak(current, peak_connections)
           /\ max_sample' = Max(max_sample, current)
    /\ mon_pc' = "check"
    /\ UNCHANGED <<serverVars, logVars, pctVars, connections, active_connections,
                   total_bytes, driverVars, workerVars>>

connection_monitor == MonitorCheck \/ MonitorSample

(* The worker threads: tcp_client_worker and udp_client_worker *)

\* a loop that does not look at stop_test
LoopContinuesAlways(stop) == TRUE

\* part_002:257 and 316: while (!stop_test)
LoopContinues(stop) == ~stop

\* a receive with no timeout on either kind of socket
RecvNeverTimesOut(protocol) == FALSE

\* a receive with a timeout on both kinds of socket
RecvAlwaysTimesOut(protocol) == TRUE

\* part_002:296-299: only the datagram worker sets SO_RCVTIMEO, so only its
\* receive is sure to return
RecvTimesOut(protocol) == protocol = "UDP"

\* part_002:234-249 and 292-308: socket() and, for TCP, connect(); a worker
\* whose socket or connect fails returns; the others count their connection
\* in connections, which no other thread reads before the join, and then in
\* active_connections
WorkerOpen(w) ==
    /\ wpc[w] = "start"
    /\ \E ok \in BOOLEAN :
          IF ok
          THEN /\ connections' = connections + 1
               /\ active_connections' = active_connections + 1
               /\ wpc' = [wpc EXCEPT ![w] = "loop"]
          ELSE /\ UNCHANGED <<connections, active_connections>>
               /\ wpc' = [wpc EXCEPT ![w] = "done"]
    /\ UNCHANGED <<serverVars, logVars, pctVars, peak_connections, total_bytes,
                   driverVars, monitorVars, requests, late_sends>>

\* part_002:257 and 316: the loop condition; part_002:283-284 and 341-342
\* when it is false.  Once the trial's workers have sent MaxRequests
\* requests, a worker sleeps until stop_test is set.
WorkerLoop(w) ==
    /\ wpc[w] = "loop"
    /\ IF LoopContinues(stop_test)
       THEN /\ requests < MaxRequests
            /\ wpc' = [wpc EXCEPT ![w] = "send"]
            /\ UNCHANGED <<active_connections, late_sends>>
       ELSE /\ wpc' = [wpc EXCEPT ![w] = "done"]
            /\ active_connections' = active_connections - 1
            /\ late_sends' = [late_sends EXCEPT ![w] = 0]
    /\ UNCHANGED <<serverVars, logVars, pctVars, connections, peak_connections,
                   total_bytes, driverVars, monitorVars, requests>>

\* part_002:260 and 319: send() or sendto(); when it fails the stream
\* worker leaves its loop and the datagram worker sleeps and goes on
WorkerSend(w) ==
    /\ wpc[w] = "send"
    /\ requests' = requests + 1
    /\ late_sends' = [late_sends EXCEPT ![w] = IF stop_test THEN @ + 1 ELSE @]
    /\ \E sent \in BOOLEAN :
          IF sent
          THEN /\ wpc' = [wpc EXCEPT ![w] = "recv"]
               /\ UNCHANGED active_connections
          ELSE IF Protocol(trial) = "TCP"
          THEN /\ wpc' = [wpc EXCEPT ![w] = "done"]
               /\ active_connections' = active_connections - 1
          ELSE /\ wpc' = [wpc EXCEPT ![w] = "loop"]
               /\ UNCHANGED active_connections
    /\ UNCHANGED <<serverVars, logVars, pctVars, connections, peak_connections,
                   total_bytes, driverVars, monitorVars>>

\* part_002:262-272 and 323-334: recv() or recvfrom() returns data; the
\* latency is appended under results_mutex, the bytes are counted, and the
\* worker sleeps
WorkerRecvEcho(w) ==
    /\ wpc[w] = "recv"
    /\ \E latency \in TesterLatencies :
           latencies' = Append(latencies, latency)
    /\ total_bytes' = total_bytes + RequestBytes
    /\ wpc' = [wpc EXCEPT ![w] = "loop"]
    /\ UNCHANGED <<serverVars, logVars, percentiles, connections, active_connections,
                   peak_connections, driverVars, monitorVars, requests,
                   late_sends>>

\* a datagram worker that returns when a response is missed
MissedResponseExits == "done"

\* part_002:325 and 338: received <= 0 skips the bookkeeping; the worker
\* sleeps and is at the loop condition next
MissedResponseNext == "loop"

\* part_002:273-275: the stream worker's recv() returns 0 or -1 and the
\* worker leaves its loop; part_002:325 and 338: the datagram worker's
\* recvfrom() times out or fails and the worker sleeps and goes on
WorkerRecvFails(w) ==
    /\ wpc[w] = "recv"
    /\ IF Protocol(trial) = "TCP"
       THEN /\ wpc' = [wpc EXCEPT ![w] = "done"]
            /\ active_connections' = active_connections - 1
            /\ late_sends' = [late_sends EXCEPT ![w] = 0]
       ELSE /\ wpc' = [wpc EXCEPT ![w] = MissedResponseNext]
            /\ UNCHANGED <<active_connections, late_sends>>
    /\ UNCHANGED <<serverVars, logVars, pctVars, connections, peak_connections,
                   total_bytes, driverVars, monitorVars, requests>>

\* the steps of a worker that do not wait for the server
WorkerRuns(w) ==
    WorkerOpen(w) \/ WorkerLoop(w) \/ WorkerSend(w)

\* the return of the worker's blocking receive
WorkerReceives(w) == WorkerRecvEcho(w) \/ WorkerRecvFails(w)

\* the server is up when the tester starts (Makefile: the test target)
InitTester ==
    /\ ServerListening
    /\ littleEndian = TRUE
    /\ QuicIdle
    /\ UdpIdle
    /\ TesterIdle

\* one call of run_scalability_tests, as main makes it (part_002:423)
NextMain ==
    \/ write_log_header
    \/ reset_counters
    \/ SpawnWorker
    \/ StopTest
    \/ JoinThreads
    \/ ComputeResult
    \/ log_result
    \/ connection_monitor
    \/ \E w \in Workers : WorkerRuns(w)
    \/ \E w \in Workers : WorkerReceives(w)

NextTester == NextMain \/ run_scalability_tests

SpecTester == InitTester /\ [][NextTester]_vars

\* the threads get to run: the Driver, the monitor and every worker take
\* their next step in the end, and a receive that has a timeout returns.
\* Nothing makes a receive without a timeout return.
Fairness ==
    /\ WF_vars(write_log_header \/ reset_counters \/ SpawnWorker \/ StopTest
                   \/ JoinThreads \/ ComputeResult \/ log_result)
    /\ WF_vars(connection_monitor)
    /\ \A w \in Workers :
           WF_vars(\/ WorkerRuns(w)
                   \/ RecvTimesOut(Protocol(trial)) /\ WorkerReceives(w))

FairTester == InitTester /\ [][NextMain]_vars /\ Fairness

-----------------------------------------------------------------------------
(* Claims about the tester's threads, checked under SpecTester and, for    *)
(* what must happen in the end, under FairTester                           *)

\* C7: within a trial, after every step of the monitor the peak is at least
\* every value of active_connections it has sampled so far, and no step
\* other than reset_counters lowers the peak.
C7_PeakCoversSamples ==
    /\ [](peak_connections >= max_sample)
    /\ [][drv_pc # "reset" => peak_connections' >= peak_connections]_vars

\* the monitor has recorded a peak of two connections and one has ended
C7_Witness ==
    /\ mon_pc = "check"
    /\ max_sample = 2
    /\ peak_connections = 2
    /\ active_connections < 2

\* C8 as stated: once stop_test is set no worker performs a send.
C8_NoSendAfterStop ==
    [][stop_test => \A w \in Workers : ~WorkerSend(w)]_vars

\* C8: once stop_test is set, a worker performs at most one more send, the
\* one of a worker that had evaluated its loop condition before; a worker
\* that evaluates it afterwards sends nothing and ends.
C8_OneSendAfterStop ==
    /\ [](\A w \in Workers : late_sends[w] <= 1)
    /\ [][\A w \in Workers :
             (stop_test /\ wpc[w] = "loop" /\ wpc'[w] # "loop")
                 => wpc'[w] = "done"]_vars

\* a worker has sent a request after stop_test was set
C8_Witness == \E w \in Workers : late_sends[w] = 1 /\ wpc[w] = "recv"

\* run_scalability_tests has returned
TesterDone == drv_pc = "done"

\* C9 as stated: whatever fails and whatever the server does, every trial
\* ends and run_scalability_tests returns.
C9_AlwaysCompletes == <>TesterDone

\* C9: whatever fails, every trial ends and run_scalability_tests returns,
\* unless a stream worker stays blocked in recv for ever.
C9_CompletesUnlessBlocked ==
    \/ <>TesterDone
    \/ \E w \in Workers : <>[](wpc[w] = "recv" /\ Protocol(trial) = "TCP")

\* the sequence has completed although a worker failed to connect
C9_Witness ==
    /\ TesterDone
    /\ connections < NumThreads(trial)


(***************************************************************************)
(* The server's life and its stream path (specification Spec)              *)
(***************************************************************************)

\* the steps of initialize() that can fail, in program order: epoll_create1;
\* socket, bind, listen and epoll_ctl for the stream socket; socket, bind and
\* epoll_ctl for each of the two datagram sockets
InitSteps == 11

\* the server is inside run()
Running ==
    pc \in {"wait", "interrupted", "accept", "client_read", "client_write"}

\* an initialize() that goes on when listen() fails
InitializeReturnsDespiteListen(failed) == failed \in {3, InitSteps}

\* server.cpp:58-78: initialize() returns true when no step has failed, and
\* main (428-433) enters run() only then
InitializeReturns(failed) == failed = InitSteps

\* server.cpp:52-211: initialize() with setup_tcp_socket, setup_udp_socket and
\* setup_quic_socket; the steps before number `failed` succeed, step `failed`
\* fails and initialize returns false with what was opened left open;
\* failed = InitSteps is the run where every step succeeds
initialize ==
    /\ pc = "new"
    /\ \E failed \in 0..InitSteps :
         LET e == LowestFree(open_fds)
             t == LowestFree(open_fds \cup {e})
             u == LowestFree(open_fds \cup {e, t})
             q == LowestFree(open_fds \cup {e, t, u})
         IN  /\ epoll_fd' = IF failed >= 1 THEN e ELSE -1
             /\ tcp_fd' = IF failed >= 2 THEN t ELSE -1
             /\ udp_fd' = IF failed >= 6 THEN u ELSE -1
             /\ quic_fd' = IF failed >= 9 THEN q ELSE -1
             /\ open_fds' = open_fds
                            \cup (IF failed >= 1 THEN {e} ELSE {})
                            \cup (IF failed >= 2 THEN {t} ELSE {})
                            \cup (IF failed >= 6 THEN {u} ELSE {})
                            \cup (IF failed >= 9 THEN {q} ELSE {})
             /\ registered' = (IF failed >= 5 THEN {t} ELSE {})
                              \cup (IF failed >= 8 THEN {u} ELSE {})
                              \cup (IF failed >= 11 THEN {q} ELSE {})
             /\ bound' = (IF failed >= 3 THEN {t} ELSE {})
                         \cup (IF failed >= 7 THEN {u} ELSE {})
                         \cup (IF failed >= 10 THEN {q} ELSE {})
             /\ listening' = IF failed >= 4 THEN {t} ELSE {}
             /\ pc' = IF InitializeReturns(failed) THEN "wait" ELSE "failed"
    /\ UNCHANGED <<closes, cleanups, connVars, handlerVars, quicVars, udpVars,
                   pctVars, testerVars>>

\* server.cpp:217-222: epoll_wait fails with an error other than EINTR and
\* run() leaves its loop
EpollWaitFails ==
    /\ pc = "wait"
    /\ pc' = "stopped"
    /\ UNCHANGED <<tcpVars, quicVars, udpVars, pctVars, testerVars>>

\* server.cpp:217-219: a signal interrupts epoll_wait, which returns -1 with
\* errno EINTR
EpollWaitInterrupted ==
    /\ pc = "wait"
    /\ pc' = "interrupted"
    /\ UNCHANGED <<tcpVars, quicVars, udpVars, pctVars, testerVars>>

\* a run() that takes the interruption for a failure of the wait
InterruptedStops == "stopped"

\* server.cpp:219: if (errno == EINTR) continue; the loop calls epoll_wait again
InterruptedNext == "wait"

\* server.cpp:219: the continue after an interrupted wait
EpollWaitRetry ==
    /\ pc = "interrupted"
    /\ pc' = InterruptedNext
    /\ UNCHANGED <<tcpVars, quicVars, udpVars, pctVars, testerVars>>

\* the descriptors cleanup() passes to close(): the fields that are not -1
CleanupTargets == {tcp_fd, udp_fd, quic_fd, epoll_fd} \ {-1}

\* server.cpp:417-422: cleanup(); main returns after initialize() failed or
\* run() left its loop and the destructor (48-50) calls it.  The fields keep
\* their values, so a further call passes the same numbers to close() again.
cleanup ==
    /\ pc \in {"failed", "stopped", "cleaned"}
    /\ cleanups < MaxCleanups
    /\ cleanups' = cleanups + 1
    /\ closes' = [n \in FdNums |->
                    IF n \in CleanupTargets THEN closes[n] + 1 ELSE closes[n]]
    /\ open_fds' = open_fds \ CleanupTargets
    /\ registered' = IF epoll_fd # -1 THEN {} ELSE registered \ CleanupTargets
    /\ bound' = bound \ CleanupTargets
    /\ listening' = listening \ CleanupTargets
    /\ pc' = "cleaned"
    /\ UNCHANGED <<epoll_fd, tcp_fd, udp_fd, quic_fd, connVars, handlerVars,
                   quicVars, udpVars, pctVars, testerVars>>

\* the bytes of all clients together stay within the budget
TotalSent == LET RECURSIVE Sum(_)
                 Sum(c) == IF c = 0 THEN 0 ELSE csent[c] + Sum(c - 1)
             IN  Sum(MaxClients)

\* the steps the clients have taken: each connect, byte sent and close
ClientSteps ==
    TotalSent + Cardinality({c \in Clients : cstate[c] # "idle"})
              + Cardinality({c \in Clients : peer[c] # "up"})

\* the byte a client sends at position i of its stream
PayloadAt(i) == i

\* what a client has sent so far
Sent(c) == [i \in 1..csent[c] |-> PayloadAt(i)]

\* data or a hangup is pending on the connection
Readable(c) == cread[c] < csent[c] \/ peer[c] # "up"

\* a client connects: the connection completes into the listen backlog;
\* the clients are numbered in the order in which they connect
ClientConnect(c) ==
    /\ Running
    /\ tcp_fd \in listening
    /\ cstate[c] = "idle"
    /\ \A b \in 1..(c - 1) : cstate[b] # "idle"
    /\ ClientSteps < MaxClientSteps
    /\ cstate' = [cstate EXCEPT ![c] = "queued"]
    /\ UNCHANGED <<pc, fdVars, tcp_connections, cfd, peer, csent, cread,
                   echoed, ready, wouldblock,
                   chunk_starts, sockVars, handlerVars, quicVars, udpVars,
                   pctVars, testerVars>>

\* a client sends one more byte; on a registered connection this is a new
\* edge for the readiness handle (EPOLLIN | EPOLLET, server.cpp:274)
ClientSend(c) ==
    /\ Running
    /\ cstate[c] \in {"queued", "open"}
    /\ peer[c] = "up"
    /\ TotalSent < MaxSend
    /\ ClientSteps < MaxClientSteps
    /\ csent' = [csent EXCEPT ![c] = @ + 1]
    /\ ready' = [ready EXCEPT ![c] = @ \/ cstate[c] = "open"]
    /\ UNCHANGED <<pc, fdVars, tcp_connections, cstate, cfd, peer, cread,
                   echoed, wouldblock,
                   chunk_starts, sockVars, handlerVars, quicVars, udpVars,
                   pctVars, testerVars>>

\* a client shuts its side down (how = "fin") or resets the connection
\* (how = "rst")
ClientClose(c, how) ==
    /\ Running
    /\ cstate[c] \in {"queued", "open"}
    /\ peer[c] = "up"
    /\ ClientSteps < MaxClientSteps
    /\ peer' = [peer EXCEPT ![c] = how]
    /\ ready' = [ready EXCEPT ![c] = @ \/ cstate[c] = "open"]
    /\ UNCHANGED <<pc, fdVars, tcp_connections, cstate, cfd, csent, cread,
                   echoed, wouldblock,
                   chunk_starts, sockVars, handlerVars, quicVars, udpVars,
                   pctVars, testerVars>>

\* server.cpp:225-226: the listening socket is ready (level-triggered, 114)
DispatchAccept ==
    /\ pc = "wait"
    /\ tcp_fd \in registered
    /\ \E c \in Clients : cstate[c] = "queued"
    /\ pc' = "accept"
    /\ UNCHANGED <<tcpVars, quicVars, udpVars, pctVars, testerVars>>

\* a registration for read interest alone, level-triggered
ClientEventsLevel == {"EPOLLIN"}

\* server.cpp:274: ev.events = EPOLLIN | EPOLLET | EPOLLRDHUP
ClientEvents == {"EPOLLIN", "EPOLLET", "EPOLLRDHUP"}

\* server.cpp:250-280: one turn of the accept loop that accepts a connection:
\* the counter goes up, then epoll_ctl either registers the descriptor or
\* fails, and then the descriptor is closed and the loop continues
AcceptOne(c, added) ==
    /\ pc = "accept"
    /\ cstate[c] = "queued"
    /\ o_nonblock' = [o_nonblock EXCEPT ![c] = TRUE]
    /\ ev_events' = [ev_events EXCEPT ![c] = IF added THEN ClientEvents ELSE {}]
    /\ LET client_fd == LowestFree(open_fds)
       IN  /\ tcp_connections' = tcp_connections + 1
           /\ cfd' = [cfd EXCEPT ![c] = client_fd]
           /\ IF added
                THEN /\ open_fds' = open_fds \cup {client_fd}
                     /\ registered' = registered \cup {client_fd}
                     /\ closes' = [closes EXCEPT ![client_fd] = 0]
                     /\ cstate' = [cstate EXCEPT ![c] = "open"]
                     /\ ready' = [ready EXCEPT ![c] = Readable(c)]
                ELSE /\ closes' = [closes EXCEPT ![client_fd] = 1]
                     /\ cstate' = [cstate EXCEPT ![c] = "closed"]
                     /\ UNCHANGED <<open_fds, registered, ready>>
    /\ UNCHANGED <<pc, epoll_fd, tcp_fd, udp_fd, quic_fd, bound, listening,
                   cleanups, peer,
                   csent, cread, echoed, wouldblock,
                   chunk_starts, handlerVars, quicVars,
                   udpVars, pctVars, testerVars>>

\* server.cpp:251-261: accept returns -1, with EAGAIN when the backlog is
\* empty or with another error (EMFILE, ENFILE, ...) at any time; the loop
\* ends and nothing else changes
AcceptBreak ==
    /\ pc = "accept"
    /\ pc' = "wait"
    /\ UNCHANGED <<tcpVars, quicVars, udpVars, pctVars, testerVars>>

handle_tcp_connection ==
    \/ \E c \in Clients, added \in BOOLEAN : AcceptOne(c, added)
    \/ AcceptBreak

\* a close_client that leaves the descriptor in the interest list and the
\* counter as it is
CloseOnly(c) ==
    /\ open_fds' = open_fds \ {cfd[c]}
    /\ closes' = [closes EXCEPT ![cfd[c]] = @ + 1]
    /\ cstate' = [cstate EXCEPT ![c] = "closed"]
    /\ UNCHANGED <<registered, tcp_connections>>

\* server.cpp:411-415: close_client(client_fd)
close_client(c) ==
    /\ registered' = registered \ {cfd[c]}
    /\ open_fds' = open_fds \ {cfd[c]}
    /\ closes' = [closes EXCEPT ![cfd[c]] = @ + 1]
    /\ tcp_connections' = tcp_connections - 1
    /\ cstate' = [cstate EXCEPT ![c] = "closed"]

\* an event loop that takes no notice of the error and hangup flags
ErrorOrHangupIgnored(c) == FALSE

\* server.cpp:233: events[i].events & (EPOLLERR | EPOLLHUP): the flags are
\* set on the event of a connection that was reset
ErrorOrHangup(c) == peer[c] = "rst"

\* server.cpp:231-237: an event on a client descriptor; with EPOLLERR or
\* EPOLLHUP (the connection was reset) the client is closed at once, else
\* handle_tcp_client starts
DispatchClient(c) ==
    /\ pc = "wait"
    /\ cstate[c] = "open"
    /\ ready[c]
    /\ ready' = [ready EXCEPT ![c] = FALSE]
    /\ IF ErrorOrHangup(c)
         THEN /\ close_client(c)
              /\ UNCHANGED <<pc, h_client>>
         ELSE /\ pc' = "client_read"
              /\ h_client' = c
              /\ UNCHANGED <<registered, open_fds, closes, tcp_connections,
                             cstate>>
    /\ UNCHANGED <<epoll_fd, tcp_fd, udp_fd, quic_fd, bound, listening,
                   cleanups, cfd, peer,
                   csent, cread, echoed, wouldblock,
                   chunk_starts, sockVars, tcp_buffer,
                   total_written, quicVars, udpVars, pctVars, testerVars>>

\* read(client_fd, buffer, sizeof(buffer)): the bytes that have arrived and
\* were not read yet, at most a buffer full
ReadBytes(c) ==
    [i \in 1..Min(csent[c] - cread[c], BUFFER_SIZE) |-> Sent(c)[cread[c] + i]]

\* server.cpp:288 and 312-319: the read of the outer loop.  Bytes read start
\* the write loop; 0 (the peer shut down) and an error other than EAGAIN
\* (the connection was reset) close the client; EAGAIN ends the handler.
ClientRead ==
    /\ pc = "client_read"
    /\ LET c == h_client
       IN  IF peer[c] = "rst" \/ (cread[c] = csent[c] /\ peer[c] = "fin")
             THEN /\ close_client(c)
                  /\ pc' = "wait"
                  /\ h_client' = 0
                  /\ tcp_buffer' = <<>>
                  /\ UNCHANGED <<cread, chunk_starts, total_written>>
             ELSE IF cread[c] < csent[c]
               THEN /\ tcp_buffer' = ReadBytes(c)
                    /\ cread' = [cread EXCEPT ![c] = @ + Len(ReadBytes(c))]
                    /\ chunk_starts' =
                           [chunk_starts EXCEPT ![c] = @ \cup {cread[c] + 1}]
                    /\ total_written' = 0
                    /\ pc' = "client_write"
                    /\ UNCHANGED <<registered, open_fds, closes,
                                   tcp_connections, cstate, h_client>>
               ELSE /\ pc' = "wait"
                    /\ h_client' = 0
                    /\ tcp_buffer' = <<>>
                    /\ UNCHANGED <<registered, open_fds, closes,
                                   tcp_connections, cstate, cread,
                                   chunk_starts, total_written>>
    /\ UNCHANGED <<epoll_fd, tcp_fd, udp_fd, quic_fd, bound, listening,
                   cleanups, cfd, peer,
                   csent, echoed, ready, wouldblock, sockVars, quicVars,
                   udpVars,
                   pctVars, testerVars>>

\* a variant of WriteSlice that always writes from the start of the buffer
WriteSliceFromStart(buf, from, len) == SubSeq(buf, 1, len)

\* server.cpp:294: write(client_fd, buffer + total_written, ...) accepting
\* len bytes: the bytes that go out
WriteSlice(buf, from, len) == SubSeq(buf, from + 1, from + len)

\* a handler that returns once a chunk is echoed, without another read
EchoedReturns == "wait"

\* server.cpp:288 and 293: the chunk is written (total_written = bytes_read),
\* the write loop ends and the outer while reads again
EchoedNext == "client_read"

\* a handler that tries the write again when it reports EAGAIN
WouldBlockRetries == "client_write"

\* server.cpp:296-297: write reports EAGAIN and break leaves the write loop;
\* the handler is at the read of the outer loop next
WouldBlockNext == "client_read"

\* server.cpp:293-309: one turn of the write loop.  The write accepts some of
\* the remaining bytes, or reports EAGAIN and the loop is left with the rest
\* of the buffer unwritten, or fails on a reset connection and the client is
\* closed.  When nothing remains, the outer loop reads again.
ClientWrite ==
    /\ pc = "client_write"
    /\ LET c == h_client
           remaining == Len(tcp_buffer) - total_written
       IN  \/ /\ peer[c] # "rst"
              /\ \E bytes_written \in 1..remaining :
                   /\ echoed' = [echoed EXCEPT ![c] =
                        @ \o WriteSlice(tcp_buffer, total_written,
                                        bytes_written)]
                   /\ total_written' = total_written + bytes_written
                   /\ pc' = IF bytes_written = remaining
                              THEN EchoedNext ELSE "client_write"
              /\ UNCHANGED <<registered, open_fds, closes, tcp_connections,
                             cstate, wouldblock, h_client, tcp_buffer>>
           \/ /\ peer[c] # "rst"
              /\ wouldblock' = [wouldblock EXCEPT ![c] = TRUE]
              /\ pc' = WouldBlockNext
              /\ UNCHANGED <<registered, open_fds, closes, tcp_connections,
                             cstate, echoed, h_client, tcp_buffer,
                             total_written>>
           \/ /\ peer[c] = "rst"
              /\ close_client(c)
              /\ pc' = "wait"
              /\ h_client' = 0
              /\ tcp_buffer' = <<>>
              /\ UNCHANGED <<echoed, wouldblock, total_written>>
    /\ UNCHANGED <<epoll_fd, tcp_fd, udp_fd, quic_fd, bound, listening,
                   cleanups, cfd, peer,
                   csent, cread, chunk_starts, sockVars, ready, quicVars,
                   udpVars,
                   pctVars, testerVars>>

handle_tcp_client == ClientRead \/ ClientWrite

\* server.cpp:425-427: main constructs the server; the stream path does not
\* depend on the host's byte order
Init ==
    /\ ServerNew
    /\ littleEndian = TRUE
    /\ QuicIdle
    /\ UdpIdle
    /\ TesterIdle

Next ==
    \/ initialize
    \/ EpollWaitFails
    \/ cleanup
    \/ \E c \in Clients : ClientConnect(c)
    \/ \E c \in Clients : ClientSend(c)
    \/ \E c \in Clients, how \in {"fin", "rst"} : ClientClose(c, how)
    \/ DispatchAccept
    \/ handle_tcp_connection
    \/ \E c \in Clients : DispatchClient(c)
    \/ handle_tcp_client

Spec == Init /\ [][Next]_vars

\* the reactor thread runs: a handler that was called takes its next step
\* (server.cpp:249-281 and 288-319), and events that are pending on client
\* descriptors are dispatched however often the listening socket is ready,
\* since epoll_wait reports the ready descriptors together
\* (server.cpp:217-239)
FairReactor ==
    /\ WF_vars(handle_tcp_connection \/ handle_tcp_client)
    /\ SF_vars(\E c \in Clients : DispatchClient(c))

\* the server's life with signals that interrupt the wait
NextRun ==
    \/ Next
    \/ EpollWaitInterrupted
    \/ EpollWaitRetry

SpecRun == Init /\ [][NextRun]_vars

FairStream == Init /\ [][Next]_vars /\ FairReactor

(***************************************************************************)
(* Claims about the stream path and the server's life                      *)
(***************************************************************************)

\* no handler is at work on the connection and no event is pending for it:
\* the server has done all it will do with what the client has sent
Settled(c) ==
    /\ cstate[c] = "open"
    /\ peer[c] = "up"
    /\ pc = "wait"
    /\ ~ready[c]

\* s picks some of the bytes 1..n of the stream, each at most once, in order
InOrderOf(s, n) ==
    /\ \A i \in 1..Len(s) : s[i] \in 1..n
    /\ \A i \in 1..Len(s), j \in 1..Len(s) : i < j => s[i] < s[j]

\* C4 as stated: on an accepted stream connection that stays open, once the
\* server has handled everything the client sent, the bytes written back are
\* the bytes sent, exactly and in order, whatever the reads and writes
\* returned, writes that would block included.
C4_EchoEqualsSent ==
    \A c \in Clients : Settled(c) => echoed[c] = Sent(c)

\* C4 amended: the bytes written back on an accepted stream connection are
\* always some of the bytes read, each once and in order; when the server has
\* handled everything the client sent and no write on the connection has
\* reported would-block, they are exactly the bytes sent.
C4_EchoUnlessWouldBlock ==
    \A c \in Clients :
        /\ cstate[c] = "open" => InOrderOf(echoed[c], cread[c])
        /\ Settled(c) /\ ~wouldblock[c] => echoed[c] = Sent(c)

\* a whole payload was read in one piece and came back complete on a
\* connection that is still open
C4_Witness ==
    \E c \in Clients :
        /\ Settled(c)
        /\ ~wouldblock[c]
        /\ csent[c] = MaxSend
        /\ echoed[c] = Sent(c)

\* C10: however often cleanup() is called on one server, close() is called
\* at most once on each descriptor the server holds.
C10_CleanupIdempotent ==
    \A n \in FdNums : closes[n] <= 1

\* the descriptors of accepted stream connections that were not closed
ClientFds == {cfd[c] : c \in {b \in Clients : cstate[b] = "open"}}

\* C11: after cleanup() has returned no descriptor the server opened is open:
\* not the three sockets, not the readiness handle, not an accepted stream
\* connection that had not been closed before.
C11_NothingOpenAfterCleanup ==
    pc = "cleaned" => open_fds = {}

\* the steps of initialize() in program order, each with whether the state
\* shows it done
StepsDone ==
    << epoll_fd # -1,
       tcp_fd # -1, tcp_fd \in bound, tcp_fd \in listening,
       tcp_fd \in registered,
       udp_fd # -1, udp_fd \in bound, udp_fd \in registered,
       quic_fd # -1, quic_fd \in bound, quic_fd \in registered >>

\* all three sockets are bound and registered for read interest
AllSetUp ==
    /\ epoll_fd \in open_fds
    /\ {tcp_fd, udp_fd, quic_fd} \subseteq (open_fds \cap bound \cap registered)
    /\ tcp_fd \in listening

\* C12: initialize() returns true, and run() is entered, exactly when every
\* step was done: all three sockets bound and registered; when a step fails
\* no later step is attempted, initialize() returns false and run() is never
\* entered.
C12_InitializeAllOrFail ==
    /\ [][pc = "new" /\ pc' # "new" =>
            /\ pc' \in {"wait", "failed"}
            /\ (pc' = "wait") <=> AllSetUp'
            /\ \A i \in 1..InitSteps, j \in 1..InitSteps :
                   i < j /\ StepsDone'[j] => StepsDone'[i]]_vars
    /\ [][pc = "failed" => pc' \in {"failed", "cleaned"}]_vars

\* listen() has failed: the stream socket is bound, nothing after it was
\* attempted, and initialize() has returned false
C12_Witness ==
    /\ pc = "failed"
    /\ tcp_fd \in bound
    /\ tcp_fd \notin listening
    /\ registered = {}
    /\ udp_fd = -1

(***************************************************************************)
(* Claims about the Connection Table, checked under SpecQuic               *)
(***************************************************************************)

\* C13: after any sequence of datagrams on the pseudo-QUIC port the table
\* holds one record per connection id, for exactly the ids the datagrams
\* carried, every record has established false, and no record is removed.
C13_TableMatchesIdsSeen ==
    /\ [](/\ DOMAIN quic_connections_map = quic_seen
          /\ \A id \in DOMAIN quic_connections_map :
                 /\ quic_connections_map[id].connection_id = id
                 /\ ~quic_connections_map[id].established)
    /\ [][DOMAIN quic_connections_map
              \subseteq DOMAIN quic_connections_map']_vars

(***************************************************************************)
(* Further claims about the tester, checked under SpecTester               *)
(***************************************************************************)

\* the Driver computes or logs the result of the trial
Computing == drv_pc \in {"compute", "log"}

\* the counters and samples a result is computed from
resultInputs ==
    <<latencies, connections, active_connections, peak_connections,
      total_bytes>>

\* C14: when the Driver starts computing a trial's result every worker and
\* the monitor of the trial have ended; while it computes and logs, no
\* sample is appended and no counter changes; and the samples are only
\* those appended since reset_counters by workers of this trial.
C14_CleanTrialBoundary ==
    /\ [](Computing =>
            /\ \A w \in Workers : wpc[w] \in {"idle", "done"}
            /\ \A w \in 1..spawned : wpc[w] = "done"
            /\ mon_pc = "done")
    /\ [][Computing => UNCHANGED resultInputs]_vars
    /\ [][latencies' # latencies =>
            \/ drv_pc = "reset" /\ latencies' = <<>>
            \/ /\ drv_pc \in {"spawn", "join"}
               /\ \E w \in 1..spawned :
                      /\ wpc[w] = "recv"
                      /\ wpc'[w] = "loop"
                      /\ Len(latencies') = Len(latencies) + 1
                      /\ SubSeq(latencies', 1, Len(latencies)) = latencies]_vars

\* the second trial's result is being computed from samples of its workers
C14_Witness ==
    /\ drv_pc = "compute"
    /\ trial = 2
    /\ spawned = 2
    /\ Len(latencies) >= 1

\* The accesses to objects that are not atomics which the next step of a
\* thread makes, each with whether it writes and whether the thread holds
\* results_mutex for it.

\* the Driver: latencies.clear() and reserve() (part_002:148-149, 216),
\* latencies.size() and calculate_all_percentiles (193-205)
DriverAccesses ==
    IF drv_pc = "reset"
        THEN {[obj |-> "latencies", write |-> TRUE, locked |-> FALSE]}
    ELSE IF drv_pc = "compute"
        THEN {[obj |-> "latencies", write |-> FALSE, locked |-> FALSE]}
    ELSE {}

\* the monitor touches atomics only (part_002:220-224)
MonitorAccesses == {}

\* a worker: delay_dist(rng) first of all (part_002:232, 290);
\* latencies.push_back under the lock_guard (267-270, 329-332) and then
\* interval_dist(rng) (280, 338), which the datagram worker also reaches
\* after a failed send
WorkerAccesses(w) ==
    IF wpc[w] = "start"
        THEN {[obj |-> "rng", write |-> TRUE, locked |-> FALSE]}
    ELSE IF wpc[w] = "recv"
        THEN {[obj |-> "latencies", write |-> TRUE, locked |-> TRUE],
              [obj |-> "rng", write |-> TRUE, locked |-> FALSE]}
    ELSE IF wpc[w] = "send" /\ Protocol(trial) = "UDP"
        THEN {[obj |-> "rng", write |-> TRUE, locked |-> FALSE]}
    ELSE {}

\* the threads of the tester with their next accesses: the Driver, the
\* monitor, and the workers
ThreadAccesses ==
    <<DriverAccesses, MonitorAccesses>>
        \o [w \in Workers |-> WorkerAccesses(w)]

\* two accesses conflict: the same object, one of them a write, and not both
\* made holding the mutex
Conflict(a, b) ==
    /\ a.obj = b.obj
    /\ a.write \/ b.write
    /\ ~(a.locked /\ b.locked)

\* two threads are about to make conflicting accesses that nothing orders
RaceOn(obj) ==
    \E t \in DOMAIN ThreadAccesses, u \in DOMAIN ThreadAccesses :
        /\ t # u
        /\ \E a \in ThreadAccesses[t], b \in ThreadAccesses[u] :
               a.obj = obj /\ Conflict(a, b)

\* C15: in no reachable state do two tester threads access the same
\* non-atomic object concurrently, one of them writing, unless both hold
\* results_mutex.
C15_NoDataRace ==
    \A obj \in {"latencies", "rng"} : ~RaceOn(obj)

\* the step is worker w failing: its socket or connect, its send, or its
\* receive did not succeed
WorkerFails(w) ==
    \/ wpc[w] = "start" /\ wpc'[w] \notin {"start", "loop"}
    \/ wpc[w] = "send" /\ wpc'[w] \notin {"send", "recv"}
    \/ wpc[w] = "recv" /\ wpc'[w] # "recv" /\ latencies' = latencies

\* C16: a worker, stream or datagram, whose connect, send or receive fails
\* leaves its loop at once and its thread ends: it sends nothing more and is
\* not started again, and the samples recorded so far stay.
C16_FailedWorkerExits ==
    [][\A w \in Workers :
           WorkerFails(w) => wpc'[w] = "done" /\ latencies' = latencies]_vars

\* C17: in every trial's result total_requests and successful_requests both
\* equal the number of latency samples recorded in the trial, and
\* success_rate is 100 when that number is at least 1 and 0 when it is 0,
\* however many of the trial's sends got no sample
C17_ResultCountsSamples ==
    drv_pc = "log" =>
        /\ result.total_requests = Len(latencies)
        /\ result.successful_requests = Len(latencies)
        /\ Len(latencies) >= 1 => result.success_rate = 100
        /\ Len(latencies) = 0 => result.success_rate = 0

\* a result with no sample although a worker has sent a request
C17_Witness ==
    /\ drv_pc = "log"
    /\ requests >= 1
    /\ Len(latencies) = 0
    /\ result.success_rate = 0

\* a line of the log that is a result's
IsResult(line) == line[1] # HeaderLine[1]

\* the results' lines of the log, in the order written
ResultLines == SelectSeq(log_file, IsResult)

\* the trial that the i-th call of test_with_client_count is, in any run
TrialOf(i) == ((i - 1) % NumTrials) + 1

\* C18: over any number of calls of run_scalability_tests the log starts
\* with the header, every trial has one result line, the lines are in the
\* order of the trials (the stream sizes, then the datagram sizes), and the
\* Protocol field of a line is the protocol that test_with_client_count was
\* given for that trial
C18_LogFollowsTrials ==
    /\ log_file # <<>> => ~IsResult(log_file[1])
    /\ Len(ResultLines) <= Len(passed)
    /\ drv_pc \in {"header", "reset", "done"} =>
           Len(ResultLines) = Len(passed)
    /\ \A i \in 1..Len(passed) :
           passed[i] = <<Protocol(TrialOf(i)), ClientCount(TrialOf(i))>>
    /\ \A i \in 1..Len(ResultLines) :
           /\ ResultLines[i][2] = passed[i][2]
           /\ ResultLines[i][1] = passed[i][1]

\* the bytes written back on the connection, as a set
Written(c) == {echoed[c][i] : i \in 1..Len(echoed[c])}

\* the bytes written back are, in order, a prefix of each chunk read: they
\* are in the order sent, each at most once, and a byte that is not the
\* first of its chunk follows the byte before it
PrefixesOfChunks(c) ==
    /\ InOrderOf(echoed[c], cread[c])
    /\ \A i \in Written(c) : i \in chunk_starts[c] \/ i - 1 \in Written(c)

\* a turn of the write loop on the connection (no step of a client) that
\* wrote nothing and did not close it: the write reported would-block
WouldBlockStep(c) ==
    /\ pc = "client_write"
    /\ h_client = c
    /\ UNCHANGED <<csent, peer, cstate>>
    /\ total_written' = total_written

\* C19: when a write of the echo would block, the rest of the chunk is not
\* written, the connection stays open and registered, and the handler goes
\* on to read the next chunk; so the bytes written on a connection are
\* always, in order, prefixes of the chunks read from it
C19_RemainderDropped ==
    /\ [](\A c \in Clients : PrefixesOfChunks(c))
    /\ [][\A c \in Clients :
              WouldBlockStep(c) =>
                  /\ echoed'[c] = echoed[c]
                  /\ cfd[c] \in registered' /\ cfd[c] \in open_fds'
                  /\ tcp_connections' = tcp_connections
                  /\ pc' = "client_read" /\ h_client' = c]_vars

\* the echo of the first chunk would have blocked and was dropped; the next
\* chunk was read and written back on the same, still registered connection
C19_Witness ==
    \E c \in Clients :
        /\ wouldblock[c]
        /\ chunk_starts[c] = {1, 2}
        /\ echoed[c] = <<2>>
        /\ cstate[c] = "open"
        /\ cfd[c] \in registered

\* a step of the server, not of a client
ServerStep ==
    /\ UNCHANGED <<csent, peer>>
    /\ \A b \in Clients : cstate[b] = "idle" => cstate'[b] = "idle"

\* the step in which the server closes the accepted connection
Closing(c) == cstate[c] = "open" /\ cstate'[c] = "closed"

\* the server meets one of the closing conditions on the connection: an
\* error or hangup event, a read of 0 bytes or a failed read on a reset
\* connection, a write that fails with a broken pipe or another error
ClosingCondition(c) ==
    /\ ServerStep
    /\ cstate[c] = "open"
    /\ \/ pc = "wait" /\ ready[c] /\ ~ready'[c] /\ peer[c] = "rst"
       \/ /\ pc = "client_read" /\ h_client = c
          /\ peer[c] = "rst" \/ (peer[c] = "fin" /\ cread[c] = csent[c])
       \/ pc = "client_write" /\ h_client = c /\ peer[c] = "rst"

\* a read on the connection that would block: nothing is there to read and
\* the peer has neither shut down nor reset
WouldBlockRead(c) ==
    /\ ServerStep
    /\ pc = "client_read" /\ h_client = c
    /\ peer[c] = "up" /\ cread[c] = csent[c]

\* the step touches the descriptor of the closed connection c: it is closed
\* or taken from the interest list
TouchesFd(c) ==
    \/ cfd[c] \in open_fds \ open_fds'
    \/ cfd[c] \in registered \ registered'

\* C20: CLOSED is terminal for a stream connection.  Each closing condition
\* closes the connection; the step that closes it takes the descriptor from
\* the interest list, closes it once and lowers tcp_connections by one;
\* afterwards the server reads, writes, deregisters and closes nothing on
\* that connection (its descriptor number is touched only while a later
\* connection holds the same number); and a read that would block
\* leaves the connection open and registered
C20_ClosedIsTerminal ==
    /\ [](pc \in {"client_read", "client_write"} =>
              cstate[h_client] = "open")
    /\ [][\A c \in Clients :
            /\ ClosingCondition(c) => Closing(c)
            /\ Closing(c) =>
                 /\ registered' = registered \ {cfd[c]}
                 /\ open_fds' = open_fds \ {cfd[c]}
                 /\ closes[cfd[c]] = 0 /\ closes'[cfd[c]] = 1
                 /\ tcp_connections' = tcp_connections - 1
                 /\ pc' = "wait"
            /\ cstate[c] = "closed" =>
                 /\ cstate'[c] = "closed"
                 /\ cread'[c] = cread[c] /\ echoed'[c] = echoed[c]
                 /\ TouchesFd(c) =>
                      \E b \in Clients \ {c} :
                          cstate[b] = "open" /\ cfd[b] = cfd[c]
            /\ WouldBlockRead(c) =>
                 /\ cstate'[c] = "open"
                 /\ cfd[c] \in registered' /\ cfd[c] \in open_fds'
                 /\ tcp_connections' = tcp_connections
                 /\ pc' = "wait"]_vars

\* a connection was closed on a read of 0 bytes, and a later connection that
\* was given the same descriptor number is open and counted
C20_Witness ==
    \E c \in Clients, b \in Clients :
        /\ cstate[c] = "closed" /\ peer[c] = "fin"
        /\ cstate[b] = "open" /\ cfd[b] = cfd[c]
        /\ cfd[b] \in registered
        /\ tcp_connections = 1

\* the event loop takes the pending event of the accepted connection, and
\* the event carries the error or hangup flag
ErrorEvent(c) ==
    /\ ServerStep
    /\ pc = "wait"
    /\ cstate[c] = "open"
    /\ ready[c] /\ ~ready'[c]
    /\ peer[c] = "rst"

\* C21: an event with the error or hangup flag on an accepted stream
\* connection makes the server close and deregister the connection and lower
\* tcp_connections by one, with no read and no write on it, also when bytes
\* of the client are waiting to be read
C21_HangupClosesUnread ==
    [][\A c \in Clients :
           ErrorEvent(c) =>
               /\ Closing(c)
               /\ registered' = registered \ {cfd[c]}
               /\ open_fds' = open_fds \ {cfd[c]}
               /\ tcp_connections' = tcp_connections - 1
               /\ cread'[c] = cread[c] /\ echoed'[c] = echoed[c]
               /\ chunk_starts'[c] = chunk_starts[c]
               /\ pc' = "wait" /\ h_client' = h_client]_vars

\* a reset connection was closed while a byte of the client was unread
C21_Witness ==
    \E c \in Clients :
        /\ cstate[c] = "closed" /\ peer[c] = "rst"
        /\ cfd[c] \notin registered
        /\ cread[c] < csent[c]
        /\ closes[cfd[c]] = 1

\* the accepted stream connections that are open and in the interest list
OpenRegistered ==
    {c \in Clients : cstate[c] = "open" /\ cfd[c] \in registered}

\* C22: whatever accepts, failed registrations and closes have happened,
\* tcp_connections is not negative and is the number of accepted stream
\* connections that are open and registered with the readiness handle
C22_CounterMatchesOpen ==
    /\ tcp_connections >= 0
    /\ tcp_connections = Cardinality(OpenRegistered)

\* handle_tcp_client returns from its work on the connection
HandlerReturns(c) ==
    /\ ServerStep
    /\ pc \in {"client_read", "client_write"}
    /\ h_client = c
    /\ pc' = "wait"

\* bytes of the client have arrived on the open connection and are unread
Unread(c) == cstate[c] = "open" /\ cread[c] < csent[c]

\* the event loop has ended and dispatches no event any more
LoopEnded == pc \in {"failed", "stopped", "cleaned"}

Accepted(c) ==
    /\ ServerStep
    /\ pc = "accept"
    /\ cstate[c] = "queued" /\ cstate'[c] # "queued"

\* the accept loop ends: accept returned -1
AcceptEnds ==
    /\ ServerStep
    /\ pc = "accept"
    /\ pc' # "accept"

QuicHandles(n) ==
    /\ pc = "quic"
    /\ quic_queue # <<>>
    /\ quic_queue' = Tail(quic_queue)
    /\ Len(Head(quic_queue).data) >= n

\* the connection id the handler works with for the datagram it takes
HandledId == ConnectionId(Recvfrom(Head(quic_queue).data, BUFFER_SIZE - 1))

\* C25: for every pseudo-QUIC datagram handled, the record of its connection
\* id has last_activity at the current time afterwards, whether the record
\* was created or was there before; quic_connections goes up by one exactly
\* when a record is created; and quic_connections is always the number of
\* records in the table
C25_RefreshAndCount ==
    /\ [][QuicHandles(1) =>
              /\ HandledId \in DOMAIN quic_connections_map'
              /\ quic_connections_map'[HandledId].last_activity = now
              /\ IF HandledId \in DOMAIN quic_connections_map
                 THEN /\ quic_connections' = quic_connections
                      /\ DOMAIN quic_connections_map'
                             = DOMAIN quic_connections_map
                 ELSE /\ quic_connections' = quic_connections + 1
                      /\ DOMAIN quic_connections_map'
                             = DOMAIN quic_connections_map \cup {HandledId}
              /\ \A id \in DOMAIN quic_connections_map \ {HandledId} :
                     quic_connections_map'[id] = quic_connections_map[id]]_vars
    /\ [](quic_connections = Cardinality(DOMAIN quic_connections_map))

\* a record made by a datagram of one peer was refreshed, at a later time,
\* by a datagram with the same id of another peer, and is the only record
C25_Witness ==
    /\ quic_sendto # NoSend
    /\ quic_sendto.req = HiDatagram
    /\ quic_connections = 1
    /\ DOMAIN quic_connections_map = {ConnectionId(HiDatagram)}
    /\ quic_connections_map[ConnectionId(HiDatagram)].client_addr
           # quic_sendto.from
    /\ quic_connections_map[ConnectionId(HiDatagram)].last_activity = now
    /\ now = MaxTime

\* C26: a datagram of 1, 2 or 3 bytes on the pseudo-QUIC port is dropped
\* silently: no record is created or updated, no counter changes and no
\* response is sent
C26_ShortDatagramDropped ==
    [][QuicHandles(1) /\ Len(Head(quic_queue).data) < IdLen =>
           UNCHANGED <<quic_connections_map, quic_connections,
                       quic_sendto>>]_vars

\* C27: the response to a pseudo-QUIC datagram goes to the address the
\* datagram came from, never to the address kept in the record; the address
\* kept in a record is that of the first datagram seen with the id, and
\* later datagrams with the id from other addresses do not change it
C27_ReplyToSender ==
    /\ [][QuicHandles(1) =>
              /\ quic_sendto'.to = Head(quic_queue).addr
              /\ quic_sendto'.req
                     = Recvfrom(Head(quic_queue).data, BUFFER_SIZE - 1)
              /\ quic_connections_map'[HandledId].client_addr =
                     IF HandledId \in DOMAIN quic_connections_map
                     THEN quic_connections_map[HandledId].client_addr
                     ELSE Head(quic_queue).addr]_vars
    /\ [][\A id \in DOMAIN quic_connections_map :
              /\ id \in DOMAIN quic_connections_map'
              /\ quic_connections_map'[id].client_addr
                     = quic_connections_map[id].client_addr]_vars

\* the record of an id keeps the address of the peer that sent first, and
\* the response to a later datagram with that id went to the other peer,
\* which sent it
C27_Witness ==
    /\ quic_sendto # NoSend
    /\ quic_sendto.req = HiDatagram
    /\ quic_sendto.to = "peerB"
    /\ ConnectionId(HiDatagram) \in DOMAIN quic_connections_map
    /\ quic_connections_map[ConnectionId(HiDatagram)].client_addr = "peerA"

(***************************************************************************)
(* The event loop, checked under SpecRun                                   *)
(***************************************************************************)

\* what the handlers of the event loop work on
handled == <<tcpVars, quicVars, udpVars>>

\* C28: in run() a wait that a signal interrupts is tried again with no
\* handler called and nothing changed; any other failure of the wait ends
\* the event loop, after which no event is dispatched any more; and the loop
\* ends in no other way
C28_WaitFailures ==
    /\ [][pc = "wait" /\ pc' = "interrupted" => UNCHANGED handled]_vars
    /\ [][pc = "interrupted" /\ ServerStep =>
              /\ pc' \in {"interrupted", "wait"}
              /\ UNCHANGED handled]_vars
    /\ [][pc # "stopped" /\ pc' = "stopped" =>
              pc = "wait" /\ UNCHANGED handled]_vars
    /\ [][(pc = "stopped" \/ pc = "cleaned") =>
              /\ pc' \in {"stopped", "cleaned"}
              /\ UNCHANGED <<connVars, handlerVars, quicVars, udpVars>>]_vars

\* the wait has failed and the loop has ended while an event was pending on
\* an open connection with an unread byte
C28_Witness ==
    /\ pc = "stopped"
    /\ \E c \in Clients : Unread(c) /\ ready[c]

(***************************************************************************)
(* Further claims about the workers, checked under FairTester              *)
(***************************************************************************)

\* the receive of worker w returns in a datagram trial
DatagramRecvReturns(w) ==
    /\ Protocol(trial) = "UDP"
    /\ wpc[w] = "recv"
    /\ wpc'[w] # "recv"

\* every worker started in the trial has returned
WorkersDone == \A w \in 1..spawned : wpc[w] = "done"

\* C29: a datagram worker whose receive times out records no latency sample
\* and counts no bytes for the request, does not exit and is at its loop
\* condition next; a receive that returns either does that or records one
\* sample with its bytes; and since every receive returns, in a datagram
\* trial every worker has exited in the end once stop_test is set, also when
\* no response ever comes
C29_TimeoutIsMissedResponse ==
    /\ [][\A w \in Workers :
            DatagramRecvReturns(w) =>
                /\ wpc'[w] = "loop"
                /\ active_connections' = active_connections
                /\ \/ latencies' = latencies /\ total_bytes' = total_bytes
                   \/ /\ Len(latencies') = Len(latencies) + 1
                      /\ total_bytes' = total_bytes + RequestBytes]_vars
    /\ []<>(Protocol(trial) = "UDP" /\ stop_test => WorkersDone)

\* a datagram trial has ended with every worker returned, requests sent and
\* no response received
C29_Witness ==
    /\ Protocol(trial) = "UDP"
    /\ drv_pc = "done"
    /\ spawned = NumThreads(trial) /\ WorkersDone
    /\ connections = spawned
    /\ requests = MaxRequests
    /\ latencies = <<>> /\ total_bytes = 0

\* worker w of a stream trial is inside its blocking recv (part_002:262)
StreamBlocked(w) ==
    /\ Protocol(trial) = "TCP"
    /\ w \in 1..spawned
    /\ wpc[w] = "recv"

\* the steps of the Driver thread
DriverRuns ==
    \/ write_log_header \/ reset_counters \/ SpawnWorker \/ StopTest
    \/ JoinThreads \/ ComputeResult \/ log_result

\* C30: a stream worker inside recv leaves it by the return of the receive
\* only, whatever stop_test is; nothing the worker does by itself is possible
\* there and nothing makes the receive return; while a worker is there the
\* Driver's join does not return, and a Driver at the join can do nothing
\* else: the trial stays where it is for ever if the echo never comes
C30_BlockedInRecv ==
    /\ [][\A w \in Workers :
            (StreamBlocked(w) /\ wpc'[w] # "recv") => WorkerReceives(w)]_vars
    /\ [][(drv_pc = "join" /\ \E w \in Workers : StreamBlocked(w))
              => drv_pc' = "join" /\ stop_test' /\ trial' = trial]_vars
    /\ [](\A w \in Workers :
            StreamBlocked(w) =>
                ~ENABLED <<\/ WorkerRuns(w)
                           \/ RecvTimesOut(Protocol(trial)) /\ WorkerReceives(w)>>_vars)
    /\ []((drv_pc = "join" /\ \E w \in Workers : StreamBlocked(w))
              => ~ENABLED <<DriverRuns>>_vars)

\* stop_test is set, the Driver is at the join, the monitor and every other
\* worker have ended and one stream worker is still inside recv
C30_Witness ==
    /\ Protocol(trial) = "TCP"
    /\ stop_test
    /\ drv_pc = "join"
    /\ mon_pc = "done"
    /\ \E w \in 1..spawned :
          /\ wpc[w] = "recv"
          /\ \A v \in 1..spawned : v # w => wpc[v] = "done"

(***************************************************************************)
(* The workers' counters, one atomic operation at a time (specification    *)
(* SpecCount)                                                              *)
(***************************************************************************)

\* a worker that counts itself active before it counts its connection
CountOrderActiveFirst == <<"active_connections", "connections">>

\* part_002:248-249 and 308-309: connections++; active_connections++;
CountOrder == <<"connections", "active_connections">>

\* one operator++ on the atomic counter of that name
Increment(counter) ==
    /\ connections' = IF counter = "connections" THEN connections + 1
                      ELSE connections
    /\ active_connections' = IF counter = "active_connections"
                             THEN active_connections + 1
                             ELSE active_connections

\* part_002:234-248 and 292-308: socket() and, for TCP, connect(); a worker
\* whose socket or connect fails returns, the others make the first of the
\* two increments
WorkerConnects(w) ==
    /\ wpc[w] = "start"
    /\ \E ok \in BOOLEAN :
          IF ok
          THEN /\ Increment(CountOrder[1])
               /\ wpc' = [wpc EXCEPT ![w] = "counted"]
          ELSE /\ UNCHANGED <<connections, active_connections>>
               /\ wpc' = [wpc EXCEPT ![w] = "done"]
    /\ UNCHANGED <<serverVars, logVars, pctVars, peak_connections, total_bytes,
                   driverVars, monitorVars, requests, late_sends>>

\* part_002:249 and 309: the second increment; the worker is at its loop
\* condition next
WorkerCounts(w) ==
    /\ wpc[w] = "counted"
    /\ Increment(CountOrder[2])
    /\ wpc' = [wpc EXCEPT ![w] = "loop"]
    /\ UNCHANGED <<serverVars, logVars, pctVars, peak_connections, total_bytes,
                   driverVars, monitorVars, requests, late_sends>>

\* one call of run_scalability_tests, the two increments of a worker being
\* two steps
NextCount ==
    \/ write_log_header
    \/ reset_counters
    \/ SpawnWorker
    \/ StopTest
    \/ JoinThreads
    \/ ComputeResult
    \/ log_result
    \/ connection_monitor
    \/ \E w \in Workers : WorkerConnects(w) \/ WorkerCounts(w)
    \/ \E w \in Workers : WorkerLoop(w) \/ WorkerSend(w)
    \/ \E w \in Workers : WorkerReceives(w)

SpecCount == InitTester /\ [][NextCount]_vars

-----------------------------------------------------------------------------
(* Claims about the counters, checked under SpecCount *)

\* a trial is under way: from the start of its threads to its log line
InTrial ==
    drv_pc = "spawn" \/ drv_pc = "join" \/ drv_pc = "compute" \/ drv_pc = "log"

\* worker w is inside its loop: counted in both counters and not yet ended
InLoop(w) == wpc[w] = "loop" \/ wpc[w] = "send" \/ wpc[w] = "recv"

\* the threads of the trial have been joined
Joined == drv_pc = "compute" \/ drv_pc = "log"

\* C31: during a trial 0 <= active_connections <= connections <= the number
\* of workers started <= the client count and peak_connections is at most
\* the number of workers started; active_connections is the number of
\* workers inside their loop; connections changes only by the increment of a
\* worker whose socket and connect succeeded, active_connections rises only
\* by that worker's second increment and falls only by one when a worker
\* leaves its loop and ends; a worker whose socket or connect fails changes
\* neither; a worker that has ended stays ended; and once the workers are
\* joined active_connections is 0
C31_CounterBounds ==
    /\ [](InTrial =>
            /\ 0 <= active_connections
            /\ active_connections <= connections
            /\ connections <= spawned
            /\ spawned <= ClientCount(trial)
            /\ peak_connections <= spawned
            /\ active_connections = Cardinality({w \in Workers : InLoop(w)}))
    /\ [](Joined => active_connections = 0)
    /\ [][InTrial =>
            /\ connections' # connections =>
                  /\ connections' = connections + 1
                  /\ \E w \in Workers :
                        wpc[w] = "start" /\ wpc'[w] = "counted"
            /\ active_connections' > active_connections =>
                  /\ active_connections' = active_connections + 1
                  /\ \E w \in Workers :
                        wpc[w] = "counted" /\ wpc'[w] = "loop"
            /\ active_connections' < active_connections =>
                  /\ active_connections' = active_connections - 1
                  /\ \E w \in Workers : InLoop(w) /\ wpc'[w] = "done"
            /\ \A w \in Workers :
                  /\ (wpc[w] = "start" /\ wpc'[w] = "done") =>
                        UNCHANGED <<connections, active_connections>>
                  /\ (wpc[w] = "start" /\ wpc'[w] = "counted") =>
                        connections' = connections + 1
                  /\ (wpc[w] = "counted" /\ wpc'[w] # "counted") =>
                        /\ wpc'[w] = "loop"
                        /\ active_connections' = active_connections + 1
                  /\ (InLoop(w) /\ wpc'[w] = "done") =>
                        active_connections' = active_connections - 1
                  /\ wpc'[w] = "start" => (wpc[w] = "start" \/ wpc[w] = "idle")
                  /\ wpc'[w] = "counted" =>
                        (wpc[w] = "counted" \/ wpc[w] = "start")
                  /\ wpc[w] = "done" => wpc'[w] = "done"]_vars

\* the workers of a trial are joined: one failed to connect and changed no
\* counter, the other was counted, was seen by the monitor and has ended
C31_Witness ==
    /\ drv_pc = "compute"
    /\ spawned = 2
    /\ connections = 1
    /\ peak_connections = 1
    /\ active_connections = 0

-----------------------------------------------------------------------------
(* A further claim about the percentile computation, checked under SpecPct *)

\* the number of samples below v, and of samples not above v
SamplesBelow(v) == Cardinality({i \in 1..Len(latencies) : latencies[i] < v})

SamplesUpTo(v) == Cardinality({i \in 1..Len(latencies) : latencies[i] <= v})

\* v is what stands at 0-based index k when the samples are put in
\* ascending order: a sample with at most k samples below it and more than
\* k samples not above it
AtSortedIndex(v, k) ==
    /\ \E i \in 1..Len(latencies) : latencies[i] = v
    /\ SamplesBelow(v) <= k
    /\ k < SamplesUpTo(v)

\* max(0, floor(n * p / 100) - 1)
StatedIndex(n, p) == Max(0, ((n * p) \div 100) - 1)

\* C32: for a non-empty sample set of n values and every p in 1..100, P-p
\* is the value at index max(0, floor(n*p/100) - 1) of the samples in
\* ascending order, that index is in 0..n-1 and is the one the code
\* computes, and the computation leaves the sequence of samples as it was
C32_PercentileIndex ==
    /\ []((Computed /\ latencies # <<>>) =>
            \A p \in 1..100 :
               LET n == Len(latencies)
               IN  /\ StatedIndex(n, p) \in 0..(n - 1)
                   /\ PercentileIndex(n, p) = StatedIndex(n, p)
                   /\ AtSortedIndex(percentiles[p], StatedIndex(n, p)))
    /\ [][percentiles' # percentiles => latencies' = latencies]_vars

\* the percentiles of five samples recorded out of order: P-20, P-60 and
\* P-100 are three different values
C32_Witness ==
    /\ Computed
    /\ Len(latencies) = 5
    /\ latencies[1] > latencies[2]
    /\ percentiles[20] < percentiles[60]
    /\ percentiles[60] < percentiles[100]

-----------------------------------------------------------------------------
(* A further claim about the plain-datagram path, checked under SpecUdp *)

\* the drain loop takes the oldest queued datagram
UdpTakes ==
    /\ pc = "udp"
    /\ udp_queue # <<>>
    /\ udp_queue' = Tail(udp_queue)

\* the drain loop ends
UdpDrainEnds == pc = "udp" /\ pc' # "udp"

\* C33: the drain loop ends only by a receive that takes no datagram and
\* changes nothing but the handler's position, back to the wait; a
\* zero-length datagram is taken without a sendto and without a change of
\* udp_packets and leaves the loop running; a datagram with bytes is passed
\* to sendto once and leaves the loop running whether the send succeeds or
\* not; and udp_packets rises by one exactly in the steps where that send
\* succeeded and changes in no other step, so it counts the datagrams
\* echoed
C33_DrainAndCount ==
    /\ [][UdpDrainEnds =>
            /\ pc' = "wait"
            /\ UNCHANGED <<udp_queue, udp_packets, udp_sendto>>]_vars
    /\ [][UdpTakes =>
            /\ pc' = "udp"
            /\ IF Len(Head(udp_queue).data) = 0
               THEN UNCHANGED <<udp_packets, udp_sendto>>
               ELSE /\ udp_sendto' # NoSend
                    /\ udp_sendto'.to = Head(udp_queue).addr
                    /\ udp_packets' = IF udp_sendto'.sent
                                      THEN udp_packets + 1
                                      ELSE udp_packets]_vars
    /\ [][udp_packets' # udp_packets => UdpTakes]_vars
    /\ [](udp_packets >= 0 /\ (udp_sendto = NoSend => udp_packets = 0))

\* a drain is under way after an echo that was sent and one whose send
\* failed, and the next datagram in the queue is empty
C33_Witness ==
    /\ pc = "udp"
    /\ udp_packets >= 1
    /\ udp_sendto # NoSend
    /\ ~udp_sendto.sent
    /\ udp_queue # <<>>
    /\ Len(Head(udp_queue).data) = 0
=============================================================================
